---- MODULE Spec2Model ----
(***************************************************************************)
(* Model of the option pricer: the Black-Scholes closed form and Greeks    *)
(* (pricer_project/models/black_scholes.py), the Monte Carlo estimator     *)
(* (pricer_project/models/monte_carlo.py) and the convergence comparison   *)
(* (pricer_project/interface/stats_analysis.py).                           *)
(*                                                                         *)
(* Python floats are modelled as fixed-point integers: the real x is the   *)
(* integer x * SC, every product and quotient is rounded toward zero.      *)
(* math.exp, math.log, math.erf and math.sqrt are computed by their series *)
(* (or by integer square root) at that resolution.  A Python call either   *)
(* returns a value or raises an exception; both outcomes are values of the *)
(* model: Return(v) and Raise(e).                                          *)
(***************************************************************************)
EXTENDS Integers, Sequences, FiniteSets, TLC

VARIABLES
    rng,        \* state of numpy's process-wide generator (np.random)
    rngBefore,  \* its state when the last operation was entered
    last,       \* the last engine call: its name, arguments and outcome
    simLog,     \* the simulate_paths invocations the last call made
    tpc,        \* threads: position of each thread inside simulate_paths
    targs,      \* threads: the arguments of each thread's call
    tout        \* threads: what each thread's call returned

vars == <<rng, rngBefore, last, simLog, tpc, targs, tout>>

----------------------------------------------------------------------------
(* Bounds of the model *)

\* fixed-point resolution: the real 1.0 is the integer SC
SC == 1000
\* largest sample count a call is given (the smallest is -1)
MaxN == 2
\* longest list of sample counts given to compare_mc_vs_bs
MaxLen == 2
\* number of states of the modelled generator
RngMod == 5
\* number of series terms summed by Exp, Ln and Erf
MaxTerms == 12

\* seed: int = 42, the default of simulate_paths and monte_carlo_price
DefaultSeed == 42

----------------------------------------------------------------------------
(* Outcomes of a Python call *)

Return(v) == [value |-> v]
Raise(e) == [raised |-> e]
IsRaise(o) == "raised" \in DOMAIN o
IsReturn(o) == "value" \in DOMAIN o

\* a numpy float64 that may be nan (np.mean and np.std of an empty array)
Num(v) == [num |-> v]
NaN == [nan |-> TRUE]
IsNaN(x) == "nan" \in DOMAIN x

----------------------------------------------------------------------------
(* Fixed-point arithmetic *)

Abs(a) == IF a < 0 THEN -a ELSE a
Sgn(a) == IF a < 0 THEN -1 ELSE IF a > 0 THEN 1 ELSE 0
\* integer quotient rounded toward zero (symmetric in sign, as IEEE rounding is)
TDiv(a, b) == Sgn(a) * Sgn(b) * (Abs(a) \div Abs(b))
Mul(a, b) == TDiv(a * b, SC)
Div(a, b) == TDiv(a * SC, b)
Max(a, b) == IF a >= b THEN a ELSE b

RECURSIVE ISqrtSearch(_, _, _)
ISqrtSearch(v, lo, hi) ==
    IF lo >= hi THEN lo
    ELSE LET mid == (lo + hi + 1) \div 2
         IN  IF mid * mid <= v THEN ISqrtSearch(v, mid, hi)
             ELSE ISqrtSearch(v, lo, mid - 1)

\* math.sqrt of a non-negative x
Sqrt(x) == ISqrtSearch(x * SC, 0, 46340)

RECURSIVE ExpSeries(_, _, _, _)
ExpSeries(x, term, k, acc) ==
    IF term = 0 \/ k > MaxTerms THEN acc
    ELSE ExpSeries(x, TDiv(term * x, k * SC), k + 1, acc + term)

\* math.exp / np.exp
Exp(x) == ExpSeries(x, SC, 1, 0)

RECURSIVE LnSeries(_, _, _, _)
LnSeries(z2, pow, k, acc) ==
    IF pow = 0 \/ k > MaxTerms THEN acc
    ELSE LnSeries(z2, Mul(pow, z2), k + 1, acc + TDiv(pow, 2 * k - 1))

\* math.log of a positive y: 2 * atanh((y - 1) / (y + 1))
Ln(y) == LET z == Div(y - SC, y + SC)
         IN  2 * LnSeries(Mul(z, z), z, 1, 0)

RECURSIVE ErfSeries(_, _, _, _)
ErfSeries(x2, term, k, acc) ==
    IF term = 0 \/ k > MaxTerms THEN acc
    ELSE ErfSeries(x2, -TDiv(term * x2, (k + 1) * SC), k + 1,
                   acc + TDiv(term, 2 * k + 1))

Pi == (355 * SC) \div 113

\* math.erf
Erf(x) == Div(2 * ErfSeries(Mul(x, x), x, 0, 0), Sqrt(Pi))

----------------------------------------------------------------------------
(* black_scholes.py *)

\* OptionParams: a frozen dataclass of six floats
OptionParams(S, K, r, q, sigma, T) ==
    [S |-> S, K |-> K, r |-> r, q |-> q, sigma |-> sigma, T |-> T]

std_norm_cdf(x) == Mul(SC \div 2, SC + Erf(Div(x, Sqrt(2 * SC))))

std_norm_pdf(x) ==
    Mul(Div(SC, Sqrt(2 * Pi)), Exp(Mul(-(SC \div 2), Mul(x, x))))

\* (log(S / K) + (r - q + 0.5 * sigma**2) * T) / (sigma * sqrt(T)), evaluated
\* left to right: S / K, log, sqrt, and the final division can each raise
d1(p) ==
    IF p.K = 0 THEN Raise("ZeroDivisionError")
    ELSE IF Div(p.S, p.K) <= 0 THEN Raise("ValueError")
    ELSE IF p.T < 0 THEN Raise("ValueError")
    ELSE IF Mul(p.sigma, Sqrt(p.T)) = 0 THEN Raise("ZeroDivisionError")
    ELSE Return(Div(Ln(Div(p.S, p.K))
                      + Mul(p.r - p.q + Mul(SC \div 2, Mul(p.sigma, p.sigma)), p.T),
                    Mul(p.sigma, Sqrt(p.T))))

\* d2 called with a d1 value
d2(p, d1_val) == d1_val - Mul(p.sigma, Sqrt(p.T))

\* d2 called with d1_val = None
d2_default(p) ==
    LET o == d1(p) IN IF IsRaise(o) THEN o ELSE Return(d2(p, o.value))

disc(rate, T) == Exp(Mul(-rate, T))

call_price(p) ==
    LET o == d1(p) IN
    IF IsRaise(o) THEN o
    ELSE LET d1v == o.value
             d2v == d2(p, d1v)
         IN  Return(Mul(Mul(p.S, Exp(Mul(-p.q, p.T))), std_norm_cdf(d1v))
                    - Mul(Mul(p.K, Exp(Mul(-p.r, p.T))), std_norm_cdf(d2v)))

put_price(p) ==
    LET o == d1(p) IN
    IF IsRaise(o) THEN o
    ELSE LET d1v == o.value
             d2v == d2(p, d1v)
         IN  Return(Mul(Mul(p.K, Exp(Mul(-p.r, p.T))), std_norm_cdf(-d2v))
                    - Mul(Mul(p.S, Exp(Mul(-p.q, p.T))), std_norm_cdf(-d1v)))

black_scholes_price(p, kind) ==
    IF kind = "call" THEN call_price(p) ELSE put_price(p)

delta(p, kind) ==
    LET o == d1(p) IN
    IF IsRaise(o) THEN o
    ELSE LET d1v == o.value IN
         IF kind = "call"
         THEN Return(Mul(Exp(Mul(-p.q, p.T)), std_norm_cdf(d1v)))
         ELSE Return(Mul(-Exp(Mul(-p.q, p.T)), std_norm_cdf(-d1v)))

gamma(p) ==
    LET o == d1(p) IN
    IF IsRaise(o) THEN o
    ELSE LET d1v == o.value IN
         Return(Div(Mul(Exp(Mul(-p.q, p.T)), std_norm_pdf(d1v)),
                    Mul(Mul(p.S, p.sigma), Sqrt(p.T))))

vega(p) ==
    LET o == d1(p) IN
    IF IsRaise(o) THEN o
    ELSE LET d1v == o.value IN
         Return(Mul(Mul(Mul(p.S, Exp(Mul(-p.q, p.T))), std_norm_pdf(d1v)),
                    Sqrt(p.T)))

theta(p, kind) ==
    LET o == d1(p) IN
    IF IsRaise(o) THEN o
    ELSE LET d1v == o.value
             d2v == d2(p, d1v)
             part1 == -Div(Mul(Mul(Mul(p.S, Exp(Mul(-p.q, p.T))),
                                   std_norm_pdf(d1v)), p.sigma),
                           2 * Sqrt(p.T))
         IN  IF kind = "call"
             THEN LET part2 == Mul(Mul(Mul(-p.r, p.K), Exp(Mul(-p.r, p.T))),
                                   std_norm_cdf(d2v))
                      part3 == Mul(Mul(Mul(p.q, p.S), Exp(Mul(-p.q, p.T))),
                                   std_norm_cdf(d1v))
                  IN  Return(part1 + part2 + part3)
             ELSE LET part2 == Mul(Mul(Mul(p.r, p.K), Exp(Mul(-p.r, p.T))),
                                   std_norm_cdf(-d2v))
                      part3 == Mul(Mul(Mul(-p.q, p.S), Exp(Mul(-p.q, p.T))),
                                   std_norm_cdf(-d1v))
                  IN  Return(part1 + part2 + part3)

rho(p, kind) ==
    LET o == d2_default(p) IN
    IF IsRaise(o) THEN o
    ELSE LET d2v == o.value IN
         IF kind = "call"
         THEN Return(Mul(Mul(Mul(p.K, p.T), Exp(Mul(-p.r, p.T))),
                         std_norm_cdf(d2v)))
         ELSE Return(Mul(Mul(Mul(-p.K, p.T), Exp(Mul(-p.r, p.T))),
                         std_norm_cdf(-d2v)))

----------------------------------------------------------------------------
(* numpy: the process-wide generator and the array reductions *)

\* a call that forgets to seed: the generator stays as it was
np_random_seed_skipped(g, seed) == g

\* np.random.seed(seed): the generator's new state is a function of the seed
\* alone, whatever its state g was
np_random_seed(g, seed) == seed % RngMod

\* one step of the generator
rng_step(g) == (g + 1) % RngMod

\* the standard normal deviate the generator yields in state g
rng_normal(g) == ((g % 5) - 2) * (SC \div 2)

RECURSIVE rng_draws(_, _)
rng_draws(g, n) ==
    IF n = 0 THEN <<>>
    ELSE <<rng_normal(rng_step(g))>> \o rng_draws(rng_step(g), n - 1)

RECURSIVE rng_after(_, _)
rng_after(g, n) == IF n = 0 THEN g ELSE rng_after(rng_step(g), n - 1)

\* np.random.randn(n): n deviates drawn from the process-wide generator, which
\* advances; a negative dimension raises before anything is drawn
np_random_randn(g, n) ==
    IF n < 0 THEN [out |-> Raise("ValueError"), rng |-> g]
    ELSE [out |-> Return(rng_draws(g, n)), rng |-> rng_after(g, n)]

RECURSIVE Sum(_)
Sum(xs) == IF xs = <<>> THEN 0 ELSE Head(xs) + Sum(Tail(xs))

\* np.mean: nan for an empty array (numpy warns, it does not raise)
np_mean(xs) ==
    IF Len(xs) = 0 THEN NaN ELSE Num(TDiv(Sum(xs), Len(xs)))

\* np.std with its default ddof=0: sqrt(mean(abs(x - x.mean())**2))
np_std(xs) ==
    IF Len(xs) = 0 THEN NaN
    ELSE LET m == TDiv(Sum(xs), Len(xs))
             sq == [i \in 1..Len(xs) |-> Mul(xs[i] - m, xs[i] - m)]
         IN  Num(Sqrt(TDiv(Sum(sq), Len(xs))))

\* a subtraction with its operands exchanged
np_subtract_reversed(x, y) == IF IsNaN(x) THEN NaN ELSE Num(y - x.num)

\* float64 / float and float64 - float: nan propagates, x / 0.0 is nan or inf
\* with a warning (only nan / 0.0 arises here)
np_divide(x, y) == IF IsNaN(x) \/ y = 0 THEN NaN ELSE Num(Div(x.num, y))
np_subtract(x, y) == IF IsNaN(x) THEN NaN ELSE Num(x.num - y)

----------------------------------------------------------------------------
(* monte_carlo.py *)

\* lines 17-19: the terminal prices for the deviates Z
terminal_prices(p, Z) ==
    IF p.T < 0 THEN Raise("ValueError")
    ELSE LET drift == Mul(p.r - p.q - Mul(SC \div 2, Mul(p.sigma, p.sigma)), p.T)
             diffusion == [i \in 1..Len(Z) |-> Mul(Mul(p.sigma, Sqrt(p.T)), Z[i])]
         IN  Return([i \in 1..Len(Z) |-> Mul(p.S, Exp(drift + diffusion[i]))])

\* simulate_paths called with the process-wide generator in state g: its
\* outcome and the generator's state when it ends
simulate_paths(g, p, n_sims, seed) ==
    LET seeded == np_random_seed(g, seed)
        drawn == np_random_randn(seeded, n_sims)
    IN  IF IsRaise(drawn.out) THEN drawn
        ELSE [out |-> terminal_prices(p, drawn.out.value), rng |-> drawn.rng]

\* monte_carlo_price called with the process-wide generator in state g: its
\* outcome, the generator's state when it ends, the simulate_paths call it made
monte_carlo_price(g, p, kind, n_sims, seed) ==
    LET sim == simulate_paths(g, p, n_sims, seed)
        call == [n_sims |-> n_sims, seed |-> seed, out |-> sim.out]
    IN  IF IsRaise(sim.out) THEN [out |-> sim.out, rng |-> sim.rng, sim |-> call]
        ELSE LET ST == sim.out.value
                 payoffs == IF kind = "call"
                            THEN [i \in 1..Len(ST) |-> Max(ST[i] - p.K, 0)]
                            ELSE [i \in 1..Len(ST) |-> Max(p.K - ST[i], 0)]
                 discounted_payoffs ==
                     [i \in 1..Len(ST) |-> Mul(Exp(Mul(-p.r, p.T)), payoffs[i])]
                 price == np_mean(discounted_payoffs)
                 stderr == np_divide(np_std(discounted_payoffs), Sqrt(n_sims * SC))
             IN  [out |-> Return([price |-> price, stderr |-> stderr]),
                  rng |-> sim.rng, sim |-> call]

----------------------------------------------------------------------------
(* Inputs *)

\* S=1, K=1, r=0.05, q=0.02, sigma=0.5, T=1
Base == OptionParams(SC, SC, SC \div 20, SC \div 50, SC \div 2, SC)

\* parameter sets with S > 0, K > 0, sigma > 0, T > 0
ValidParams == {Base, [Base EXCEPT !.S = 2 * SC]}

\* parameter sets with one field (or S and K together) zero or negative
InvalidParams ==
    {[Base EXCEPT !.S = 0],
     [Base EXCEPT !.K = 0],
     [Base EXCEPT !.S = -SC, !.K = -SC],
     [Base EXCEPT !.sigma = 0],
     [Base EXCEPT !.sigma = -(SC \div 2)],
     [Base EXCEPT !.T = 0],
     [Base EXCEPT !.T = -SC]}

ParamSets == ValidParams \cup InvalidParams

\* the parameter sets given to compare_mc_vs_bs
CompareParams == {Base, [Base EXCEPT !.sigma = 0]}

\* "straddle" stands for any string other than "call" and "put"
Kinds == {"call", "put", "straddle"}

SampleCounts == -1..MaxN

Seeds == {DefaultSeed, DefaultSeed + 1}

RngStates == 0..(RngMod - 1)

RECURSIVE SeqsUpTo(_, _)
SeqsUpTo(S, n) ==
    IF n = 0 THEN {<<>>}
    ELSE LET shorter == SeqsUpTo(S, n - 1)
         IN  shorter \cup {Append(xs, x) : xs \in shorter, x \in S}

\* the n_sims_list arguments given to compare_mc_vs_bs
SampleCountLists == SeqsUpTo(SampleCounts \ {0}, MaxLen)

Threads == {1, 2}

----------------------------------------------------------------------------
(* The engine's functions on the inputs above, each evaluated once: TLC     *)
(* evaluates a definition without parameters a single time, and @@ makes    *)
(* the function an explicit table.  The actions look the outcomes up here.  *)

Tabulate(f) == f @@ [x \in {} |-> x]

black_scholes_price_of ==
    Tabulate([a \in ParamSets \X Kinds |-> black_scholes_price(a[1], a[2])])
delta_of == Tabulate([a \in ParamSets \X Kinds |-> delta(a[1], a[2])])
gamma_of == Tabulate([p \in ParamSets |-> gamma(p)])
vega_of == Tabulate([p \in ParamSets |-> vega(p)])
theta_of == Tabulate([a \in ParamSets \X Kinds |-> theta(a[1], a[2])])
rho_of == Tabulate([a \in ParamSets \X Kinds |-> rho(a[1], a[2])])
simulate_paths_of ==
    Tabulate([a \in RngStates \X ParamSets \X SampleCounts \X Seeds |->
                 simulate_paths(a[1], a[2], a[3], a[4])])
monte_carlo_price_of ==
    Tabulate([a \in RngStates \X ParamSets \X Kinds \X SampleCounts \X Seeds |->
                 monte_carlo_price(a[1], a[2], a[3], a[4], a[5])])

----------------------------------------------------------------------------
(* stats_analysis.py *)

\* The loop's callee, monte_carlo_price, is handed to it as the table of its
\* outcomes (mc_price_of), which the loop reads once per sample count.

\* a loop that calls monte_carlo_price with a seed other than the default
RECURSIVE compare_loop_other_seed(_, _, _, _, _, _, _, _, _)
compare_loop_other_seed(mc_price_of, g, p, kind, n_sims_list, i, mc_prices, mc_errors, sims) ==
    IF i > Len(n_sims_list)
    THEN [out |-> Return([mc_prices |-> mc_prices, mc_errors |-> mc_errors]),
          rng |-> g, sims |-> sims]
    ELSE LET mc == mc_price_of[g, p, kind, n_sims_list[i], DefaultSeed + 1]
         IN  IF IsRaise(mc.out)
             THEN [out |-> mc.out, rng |-> mc.rng, sims |-> Append(sims, mc.sim)]
             ELSE compare_loop_other_seed(mc_price_of, mc.rng, p, kind, n_sims_list, i + 1,
                                          Append(mc_prices, mc.out.value.price),
                                          Append(mc_errors, mc.out.value.stderr),
                                          Append(sims, mc.sim))

\* the loop of compare_mc_vs_bs over n_sims_list[i..], the lists built so far
RECURSIVE compare_loop(_, _, _, _, _, _, _, _, _)
compare_loop(mc_price_of, g, p, kind, n_sims_list, i, mc_prices, mc_errors, sims) ==
    IF i > Len(n_sims_list)
    THEN [out |-> Return([mc_prices |-> mc_prices, mc_errors |-> mc_errors]),
          rng |-> g, sims |-> sims]
    ELSE LET mc == mc_price_of[g, p, kind, n_sims_list[i], DefaultSeed]
         IN  IF IsRaise(mc.out)
             THEN [out |-> mc.out, rng |-> mc.rng, sims |-> Append(sims, mc.sim)]
             ELSE compare_loop(mc_price_of, mc.rng, p, kind, n_sims_list, i + 1,
                               Append(mc_prices, mc.out.value.price),
                               Append(mc_errors, mc.out.value.stderr),
                               Append(sims, mc.sim))

compare_mc_vs_bs(g, p, kind, n_sims_list) ==
    LET bs == black_scholes_price_of[p, kind] IN
    IF IsRaise(bs) THEN [out |-> bs, rng |-> g, sims |-> <<>>]
    ELSE LET loop == compare_loop(monte_carlo_price_of, g, p, kind, n_sims_list,
                                  1, <<>>, <<>>, <<>>) IN
         IF IsRaise(loop.out) THEN loop
         ELSE LET mc_prices == loop.out.value.mc_prices
                  mc_errors == loop.out.value.mc_errors
                  biases == [i \in 1..Len(mc_prices) |->
                                np_subtract(mc_prices[i], bs.value)]
              IN  [out |-> Return([bs_price |-> bs.value, mc_prices |-> mc_prices,
                                   mc_errors |-> mc_errors, biases |-> biases]),
                   rng |-> loop.rng, sims |-> loop.sims]

----------------------------------------------------------------------------
(* The program: engine calls made one after another *)

\* numpy seeds its process-wide generator from the operating system's entropy
\* when the process starts
Init ==
    /\ rng \in RngStates
    /\ rngBefore = rng
    /\ last = [op |-> "none"]
    /\ simLog = <<>>
    /\ tpc = [t \in Threads |-> "idle"]
    /\ targs = [t \in Threads |-> [p |-> Base, n_sims |-> 0, seed |-> DefaultSeed]]
    /\ tout = [t \in Threads |-> Return(<<>>)]

CallBlackScholesPrice ==
    \E p \in ParamSets, kind \in Kinds :
        /\ last' = [op |-> "black_scholes_price", p |-> p, kind |-> kind,
                    out |-> black_scholes_price_of[p, kind]]
        /\ rngBefore' = rng
        /\ simLog' = <<>>
        /\ UNCHANGED <<rng, tpc, targs, tout>>

CallDelta ==
    \E p \in ParamSets, kind \in Kinds :
        /\ last' = [op |-> "delta", p |-> p, kind |-> kind, out |-> delta_of[p, kind]]
        /\ rngBefore' = rng
        /\ simLog' = <<>>
        /\ UNCHANGED <<rng, tpc, targs, tout>>

CallGamma ==
    \E p \in ParamSets :
        /\ last' = [op |-> "gamma", p |-> p, out |-> gamma_of[p]]
        /\ rngBefore' = rng
        /\ simLog' = <<>>
        /\ UNCHANGED <<rng, tpc, targs, tout>>

CallVega ==
    \E p \in ParamSets :
        /\ last' = [op |-> "vega", p |-> p, out |-> vega_of[p]]
        /\ rngBefore' = rng
        /\ simLog' = <<>>
        /\ UNCHANGED <<rng, tpc, targs, tout>>

CallTheta ==
    \E p \in ParamSets, kind \in Kinds :
        /\ last' = [op |-> "theta", p |-> p, kind |-> kind, out |-> theta_of[p, kind]]
        /\ rngBefore' = rng
        /\ simLog' = <<>>
        /\ UNCHANGED <<rng, tpc, targs, tout>>

CallRho ==
    \E p \in ParamSets, kind \in Kinds :
        /\ last' = [op |-> "rho", p |-> p, kind |-> kind, out |-> rho_of[p, kind]]
        /\ rngBefore' = rng
        /\ simLog' = <<>>
        /\ UNCHANGED <<rng, tpc, targs, tout>>

CallSimulatePaths ==
    \E p \in ParamSets, n_sims \in SampleCounts, seed \in Seeds :
        LET r == simulate_paths_of[rng, p, n_sims, seed] IN
        /\ last' = [op |-> "simulate_paths", p |-> p, n_sims |-> n_sims,
                    seed |-> seed, out |-> r.out]
        /\ rng' = r.rng
        /\ rngBefore' = rng
        /\ simLog' = <<[n_sims |-> n_sims, seed |-> seed, out |-> r.out]>>
        /\ UNCHANGED <<tpc, targs, tout>>

CallMonteCarloPrice ==
    \E p \in ParamSets, kind \in Kinds, n_sims \in SampleCounts, seed \in Seeds :
        LET r == monte_carlo_price_of[rng, p, kind, n_sims, seed] IN
        /\ last' = [op |-> "monte_carlo_price", p |-> p, kind |-> kind,
                    n_sims |-> n_sims, seed |-> seed, out |-> r.out]
        /\ rng' = r.rng
        /\ rngBefore' = rng
        /\ simLog' = <<r.sim>>
        /\ UNCHANGED <<tpc, targs, tout>>

CallCompareMcVsBs ==
    \E p \in CompareParams, kind \in Kinds, n_sims_list \in SampleCountLists :
        LET r == compare_mc_vs_bs(rng, p, kind, n_sims_list) IN
        /\ last' = [op |-> "compare_mc_vs_bs", p |-> p, kind |-> kind,
                    n_sims_list |-> n_sims_list, out |-> r.out]
        /\ rng' = r.rng
        /\ rngBefore' = rng
        /\ simLog' = r.sims
        /\ UNCHANGED <<tpc, targs, tout>>

\* app.py: the analytical price, the Greeks and Monte Carlo estimates
Next ==
    \/ CallBlackScholesPrice
    \/ CallDelta
    \/ CallGamma
    \/ CallVega
    \/ CallTheta
    \/ CallRho
    \/ CallSimulatePaths
    \/ CallMonteCarloPrice

Spec == Init /\ [][Next]_vars

\* stats_analysis.py: convergence comparisons, with simulations between them
NextCompare ==
    \/ CallCompareMcVsBs
    \/ CallSimulatePaths

SpecCompare == Init /\ [][NextCompare]_vars

----------------------------------------------------------------------------
(* Two threads of one process inside simulate_paths: the statements of       *)
(* lines 15 and 16 each run atomically on the process-wide generator, and    *)
(* the threads interleave between them.                                      *)

ThreadEnter(t) ==
    /\ tpc[t] = "idle"
    /\ \E p \in ValidParams, n_sims \in 1..MaxN, seed \in Seeds :
           targs' = [targs EXCEPT ![t] = [p |-> p, n_sims |-> n_sims, seed |-> seed]]
    /\ tpc' = [tpc EXCEPT ![t] = "line15"]
    /\ UNCHANGED <<rng, rngBefore, last, simLog, tout>>

\* line 15: np.random.seed(seed)
ThreadSeed(t) ==
    /\ tpc[t] = "line15"
    /\ rng' = np_random_seed(rng, targs[t].seed)
    /\ tpc' = [tpc EXCEPT ![t] = "line16"]
    /\ UNCHANGED <<rngBefore, last, simLog, targs, tout>>

\* line 16: Z = np.random.randn(n_sims), then lines 17-20 on the thread's own Z
ThreadDraw(t) ==
    /\ tpc[t] = "line16"
    /\ LET drawn == np_random_randn(rng, targs[t].n_sims) IN
       /\ rng' = drawn.rng
       /\ tout' = [tout EXCEPT ![t] =
                      IF IsRaise(drawn.out) THEN drawn.out
                      ELSE terminal_prices(targs[t].p, drawn.out.value)]
    /\ tpc' = [tpc EXCEPT ![t] = "returned"]
    /\ UNCHANGED <<rngBefore, last, simLog, targs>>

ThreadLeave(t) ==
    /\ tpc[t] = "returned"
    /\ tpc' = [tpc EXCEPT ![t] = "idle"]
    /\ targs' = [targs EXCEPT ![t] = [p |-> Base, n_sims |-> 0, seed |-> DefaultSeed]]
    /\ tout' = [tout EXCEPT ![t] = Return(<<>>)]
    /\ UNCHANGED <<rng, rngBefore, last, simLog>>

NextThreads ==
    \/ \E t \in Threads : ThreadEnter(t)
    \/ \E t \in Threads : ThreadSeed(t)
    \/ \E t \in Threads : ThreadDraw(t)
    \/ \E t \in Threads : ThreadLeave(t)

SpecThreads == Init /\ [][NextThreads]_vars

----------------------------------------------------------------------------
(* Properties *)

Valid(p) == p.S > 0 /\ p.K > 0 /\ p.sigma > 0 /\ p.T > 0

\* the operations that take an option kind
KindOps == {"black_scholes_price", "delta", "theta", "rho", "monte_carlo_price"}

\* the pricing, Greeks and simulation operations
ParamOps == KindOps \cup {"gamma", "vega", "simulate_paths"}

SimOps == {"simulate_paths", "monte_carlo_price"}

\* C1: a pricing, Greeks or simulation call given S <= 0, K <= 0, sigma <= 0
\* or T <= 0 fails with InvalidParameterError and returns nothing.
C1_InvalidParameterError ==
    (last.op \in ParamOps /\ ~Valid(last.p))
        => last.out = Raise("InvalidParameterError")

\* C2: a call of a kind-dependent operation with a kind other than "call" and
\* "put" (valid parameters, a positive sample count) fails with
\* UnsupportedOptionKindError.
C2_UnsupportedOptionKindError ==
    (/\ last.op \in KindOps
     /\ last.kind \notin {"call", "put"}
     /\ Valid(last.p)
     /\ last.op = "monte_carlo_price" => last.n_sims > 0)
        => last.out = Raise("UnsupportedOptionKindError")

\* C3: simulate_paths and monte_carlo_price given a sample count <= 0 (valid
\* parameters, a known kind) fail with InvalidSimulationConfigError and return
\* no (price, standardError) pair.
C3_InvalidSimulationConfigError ==
    (/\ last.op \in SimOps
     /\ last.n_sims <= 0
     /\ Valid(last.p)
     /\ last.op = "monte_carlo_price" => last.kind \in {"call", "put"})
        => last.out = Raise("InvalidSimulationConfigError")

\* C4: the outcome of a monte_carlo_price call is the one its arguments
\* (parameters, kind, sample count, seed) give from any state of the
\* process-wide generator, so two calls with identical arguments agree whatever
\* calls ran before or between them.
C4_Reproducible ==
    last.op = "monte_carlo_price"
        => \A g \in RngStates :
               monte_carlo_price_of[g, last.p, last.kind, last.n_sims, last.seed].out
                   = last.out

\* a monte_carlo_price call that returned an estimate of MaxN samples although
\* the calls before it had left the generator in a state other than the one
\* its seed gives
C4_Witness ==
    /\ last.op = "monte_carlo_price"
    /\ IsReturn(last.out)
    /\ last.n_sims = MaxN
    /\ Valid(last.p)
    /\ rngBefore # np_random_seed(rngBefore, last.seed)
    /\ rng # rngBefore

\* C5: a simulate_paths call leaves the process-wide generator as it found it.
C5_SimulateLeavesGeneratorUnchanged ==
    last.op = "simulate_paths" => rng = rngBefore

\* C6: compare_mc_vs_bs given valid parameters and positive sample counts
\* returns; whenever it returns, mc_prices, mc_errors and biases are as long as
\* n_sims_list, it made exactly one monte_carlo_price call per entry, entry i
\* holds the result of the call with n_sims_list[i], in input order, and
\* biases[i] = mc_prices[i] - bs_price for the one analytical price.
C6_ConvergenceSeries ==
    last.op = "compare_mc_vs_bs" =>
        LET ns == last.n_sims_list IN
        /\ (Valid(last.p) /\ \A i \in 1..Len(ns) : ns[i] > 0) => IsReturn(last.out)
        /\ IsReturn(last.out) =>
              LET v == last.out.value IN
              /\ Len(v.mc_prices) = Len(ns)
              /\ Len(v.mc_errors) = Len(ns)
              /\ Len(v.biases) = Len(ns)
              /\ Len(simLog) = Len(ns)
              /\ Return(v.bs_price) = black_scholes_price_of[last.p, last.kind]
              /\ \A i \in 1..Len(ns) :
                    /\ simLog[i].n_sims = ns[i]
                    /\ \A g \in RngStates :
                          LET mc == monte_carlo_price_of[g, last.p, last.kind, ns[i],
                                                         simLog[i].seed].out
                          IN  /\ IsReturn(mc)
                              /\ v.mc_prices[i] = mc.value.price
                              /\ v.mc_errors[i] = mc.value.stderr
                    /\ IF IsNaN(v.mc_prices[i]) THEN IsNaN(v.biases[i])
                       ELSE v.biases[i] = Num(v.mc_prices[i].num - v.bs_price)

\* a comparison that returned for a full-length list whose counts are not in
\* increasing order, with a non-zero bias
C6_Witness ==
    /\ last.op = "compare_mc_vs_bs"
    /\ IsReturn(last.out)
    /\ Len(last.n_sims_list) = MaxLen
    /\ last.n_sims_list[1] > last.n_sims_list[MaxLen]
    /\ last.n_sims_list[MaxLen] > 0
    /\ last.out.value.biases[1].num # 0

\* the standard deviation with the n - 1 divisor (the sample standard deviation)
sample_std(xs) ==
    LET m == TDiv(Sum(xs), Len(xs))
        sq == [i \in 1..Len(xs) |-> Mul(xs[i] - m, xs[i] - m)]
    IN  Sqrt(TDiv(Sum(sq), Len(xs) - 1))

\* C7: monte_carlo_price returns the mean of the discounted payoffs and their
\* sample standard deviation divided by sqrt(n_sims), which is >= 0 (stated for
\* n_sims >= 2, where the sample standard deviation is defined).
C7_StandardErrorOfSampleStd ==
    (/\ last.op = "monte_carlo_price"
     /\ IsReturn(last.out)
     /\ last.n_sims >= 2
     /\ last.kind \in {"call", "put"})
        => LET ST == simLog[1].out.value
               p == last.p
               discounted ==
                   [i \in 1..Len(ST) |->
                       Mul(Exp(Mul(-p.r, p.T)),
                           IF last.kind = "call" THEN Max(ST[i] - p.K, 0)
                           ELSE Max(p.K - ST[i], 0))]
           IN  /\ last.out.value.price = Num(TDiv(Sum(discounted), last.n_sims))
               /\ last.out.value.stderr
                      = Num(Div(sample_std(discounted), Sqrt(last.n_sims * SC)))
               /\ last.out.value.stderr.num >= 0

\* C9: a simulate_paths call that interleaves with another thread's call
\* returns the sequence its own parameters, sample count and seed determine.
C9_ThreadsGetOwnSequence ==
    \A t \in Threads :
        tpc[t] = "returned"
            => \A g \in RngStates :
                   tout[t] = simulate_paths_of[g, targs[t].p, targs[t].n_sims,
                                               targs[t].seed].out

\* C10: compare_mc_vs_bs gives every sample count of a run the default seed,
\* and simulate_paths draws a prefix of one stream: the samples of a smaller
\* count are the first samples of every larger count of the run, and a
\* simulate_paths call's first n1 samples are those of the call for n1.
C10_SameSeedPrefix ==
    /\ last.op = "compare_mc_vs_bs" =>
          /\ \A i \in 1..Len(simLog) : simLog[i].seed = DefaultSeed
          /\ \A i, j \in 1..Len(simLog) :
                (/\ IsReturn(simLog[i].out)
                 /\ IsReturn(simLog[j].out)
                 /\ simLog[i].n_sims <= simLog[j].n_sims)
                    => simLog[i].out.value
                           = SubSeq(simLog[j].out.value, 1, simLog[i].n_sims)
    /\ (last.op = "simulate_paths" /\ IsReturn(last.out)) =>
          \A n1 \in 0..last.n_sims, g \in RngStates :
              simulate_paths_of[g, last.p, n1, last.seed].out
                  = Return(SubSeq(last.out.value, 1, n1))

\* a comparison whose second point has more samples than its first, both drawn
\* and neither empty
C10_Witness ==
    /\ last.op = "compare_mc_vs_bs"
    /\ IsReturn(last.out)
    /\ Len(simLog) = MaxLen
    /\ simLog[1].n_sims >= 1
    /\ simLog[1].n_sims < simLog[MaxLen].n_sims
    /\ simLog[1].out.value # simLog[MaxLen].out.value

====
